---- MODULE Spec2Model ----
(***************************************************************************)
(* Model of the scenario-detection and agent-dispatch pipeline of the      *)
(* EVERYTHING backend: the rule-based ContextDetector, the LLM-based       *)
(* LLMContextDetector, the AgentOrchestrator (dispatch, gather, weighting, *)
(* ranking, truncation) and the feedback scores of the RAGService.         *)
(*                                                                         *)
(* Numbers: confidences are integers in thousandths (1.0 = 1000), agent    *)
(* weights are integers in tenths (1.5 = 15), coordinates are integers in  *)
(* thousandths of a degree, feedback scores are integers in halves         *)
(* (clicked = 2, dismissed = -1).                                          *)
(***************************************************************************)
EXTENDS Integers, Sequences, FiniteSets, TLC

VARIABLES
    request,        \* the AnalysisRequest being served
    pc,             \* position of the orchestrate coroutine
    scenario,       \* orchestrate: scenario returned by the detector
    active_agents,  \* orchestrate: registry keys of the dispatched agents
    results,        \* orchestrate: per-task outcome collected by gather
    completed,      \* orchestrate: task indices in the order the tasks ended
    bundle,         \* orchestrate: the returned result bundle
    agent_weights,  \* AgentOrchestrator.agent_weights
    onboarding_file,\* agent_weights of user_onboarding.json (<<>> when absent)
    llm,            \* LLMContextDetector: behaviour of the LLM service
    llm_scenario,   \* LLMContextDetector: returned scenario
    feedback_scores,\* RAGService.feedback_scores
    feedback_log,   \* history of the record_feedback calls that were stored
    parse_args,     \* ResponseParser.parse_llm_response: the arguments
    parse_result,   \* ResponseParser.parse_llm_response: the returned insight
    conversation_history, \* voice onboarding: the messages the client holds
    voice_response  \* voice onboarding: outcome of the last voice-step call

vars == <<request, pc, scenario, active_agents, results, completed, bundle,
          agent_weights, onboarding_file, llm, llm_scenario, feedback_scores,
          feedback_log, parse_args, parse_result,
                   conversation_history, voice_response>>

(***************************************************************************)
(* Bounds of the model.                                                    *)
(***************************************************************************)
MaxCalendar == 2
MaxPerAgent == 2
MaxFeedback == 4
MaxTriggers == 3
MaxLines == 2
MaxPriorities == 2
MaxUserMessages == 6

(***************************************************************************)
(* Python helpers: truthiness of an optional string, str.lower, and the    *)
(* substring test `w in s`.                                                *)
(***************************************************************************)
None == "<None>"

Truthy(s) == s # None /\ s # ""

UpperAlphabet == "ABCDEFGHIJKLMNOPQRSTUVWXYZ"

LowerAlphabet == "abcdefghijklmnopqrstuvwxyz"

LowerChar(c) ==
    IF \E i \in 1..26 : SubSeq(UpperAlphabet, i, i) = c
    THEN LET i == CHOOSE j \in 1..26 : SubSeq(UpperAlphabet, j, j) = c
         IN  SubSeq(LowerAlphabet, i, i)
    ELSE c

RECURSIVE lower(_)
lower(s) ==
    IF Len(s) = 0 THEN ""
    ELSE LowerChar(SubSeq(s, 1, 1)) \o lower(SubSeq(s, 2, Len(s)))

Contains(s, w) ==
    \E i \in 1..(Len(s) - Len(w) + 1) : SubSeq(s, i, i + Len(w) - 1) = w

AnyIn(s, words) == \E w \in words : Contains(s, w)

ToSet(seq) == {seq[i] : i \in 1..Len(seq)}

(***************************************************************************)
(* config.py                                                               *)
(***************************************************************************)
MAX_INSIGHTS_PER_REQUEST == 5

Priorities == {"critical", "high", "medium", "low"}

PRIORITY_MAP == [p \in Priorities |->
                   CASE p = "critical" -> 0
                     [] p = "high"     -> 1
                     [] p = "medium"   -> 2
                     [] p = "low"      -> 3]

(***************************************************************************)
(* ContextDetector.get_scenario_config                                     *)
(***************************************************************************)
KnownScenarios ==
    {"commuting_to_work", "at_work", "before_sleep", "lunch_time",
     "social_evening", "weekend", "workout_time", "shopping", "general"}

Scn(type, description, confidence, triggers, manual) ==
    [type |-> type, description |-> description, confidence |-> confidence,
     triggers |-> triggers, manual |-> manual]

scenarios(t) ==
    CASE t = "commuting_to_work" ->
           Scn(t, "Commuting to work - travel, music, and preparation", 1000,
               <<"context", "content", "productivity">>, FALSE)
      [] t = "at_work" ->
           Scn(t, "At work - focus and productivity mode", 1000,
               <<"productivity", "content">>, FALSE)
      [] t = "before_sleep" ->
           Scn(t, "Winding down - sleep optimization time", 1000,
               <<"wellness", "content">>, FALSE)
      [] t = "lunch_time" ->
           Scn(t, "Lunch break - food and social time", 1000,
               <<"financial", "social">>, FALSE)
      [] t = "social_evening" ->
           Scn(t, "Social time - events and connections", 1000,
               <<"social", "context", "emotional">>, FALSE)
      [] t = "weekend" ->
           Scn(t, "Weekend mode - relaxation and activities", 1000,
               <<"social", "wellness", "content">>, FALSE)
      [] t = "workout_time" ->
           Scn(t, "Workout mode - fitness and motivation", 1000,
               <<"wellness", "social", "content">>, FALSE)
      [] t = "shopping" ->
           Scn(t, "Shopping mode - purchases and deals", 1000,
               <<"financial", "context">>, FALSE)
      [] t = "general" ->
           Scn(t, "General context - adaptive mode", 500,
               <<"context", "emotional">>, FALSE)

\* an unknown identifier keeps its own name instead of resolving to general
get_scenario_config_passthrough(scenario_type) ==
    IF scenario_type \in KnownScenarios
    THEN scenarios(scenario_type)
    ELSE [scenarios("general") EXCEPT !.type = scenario_type]

get_scenario_config(scenario_type) ==
    IF scenario_type \in KnownScenarios
    THEN scenarios(scenario_type)
    ELSE scenarios("general")

(***************************************************************************)
(* ContextDetector.detect_scenario                                         *)
(***************************************************************************)
\* datetime.fromisoformat(...) succeeded or raised; on failure hour = 9 and
\* day_of_week = 1.
ParseTime(current_time) ==
    IF current_time.ok
    THEN [hour |-> current_time.hour, day_of_week |-> current_time.weekday]
    ELSE [hour |-> 9, day_of_week |-> 1]

\* dict.get("latitude", 0), dict.get("longitude", 0)
Lat(coords) == IF coords.has THEN coords.lat ELSE 0

Lon(coords) == IF coords.has THEN coords.lon ELSE 0

\* 0.01 degrees, in thousandths of a degree
NearThreshold == 10

\* distance(...) < 0.01, compared on the squares
Near(a, b) ==
    (Lat(a) - Lat(b)) * (Lat(a) - Lat(b))
      + (Lon(a) - Lon(b)) * (Lon(a) - Lon(b)) < NearThreshold * NearThreshold

\* rule 3 with its lower bound off by one
before_sleep_hours_late(hour) == hour > 22 \/ hour <= 1

\* rule 3: hour >= 22 or hour <= 1
before_sleep_hours(hour) == hour >= 22 \/ hour <= 1

\* rule 1: 7 <= hour <= 10 with an early window
commute_hours_short(hour) == 7 <= hour /\ hour <= 9

\* rule 1: 7 <= hour <= 10
commute_hours(hour) == 7 <= hour /\ hour <= 10

\* rule 6 taking Sunday only
weekend_days_sunday(day_of_week) == day_of_week >= 6

\* rule 6: day_of_week >= 5
weekend_days(day_of_week) == day_of_week >= 5

\* rules 5 and 6 tested in the opposite order
evening_rules_weekend_first(req) ==
    LET
        t == ParseTime(req.current_context.time)
        hour == t.hour
        day_of_week == t.day_of_week
        calendar == req.calendar_events
        next_event == Len(calendar) > 0
        next_event_title == IF next_event THEN lower(calendar[1].event) ELSE ""
        social_events ==
            \E i \in 1..Len(calendar) :
                AnyIn(lower(calendar[i].event),
                      {"drinks", "pub", "dinner", "meet", "quiz", "mates"})
        general == Scn("general", "General context", 500,
                       <<"context", "emotional">>, FALSE)
        social_outer ==
            (18 <= hour /\ hour <= 23 /\ day_of_week <= 4)
            \/ (next_event /\ AnyIn(next_event_title,
                                    {"drinks", "pub", "quiz", "dinner", "mates"}))
        social_inner ==
            social_events
            \/ (next_event /\ AnyIn(next_event_title, {"drinks", "pub", "quiz"}))
        social == Scn("social_evening", "Social time - events and connections",
                      900, <<"social", "context", "emotional">>, FALSE)
        weekend == Scn("weekend", "Weekend - relaxation and social activities",
                       800, <<"social", "wellness", "content">>, FALSE)
    IN
    IF weekend_days(day_of_week) THEN weekend
    ELSE IF social_outer THEN (IF social_inner THEN social ELSE general)
    ELSE general

\* rule 5 (social evening, with its nested test), rule 6 (weekend) and the
\* initial default that is left when no rule assigns a scenario
evening_rules(req) ==
    LET
        t == ParseTime(req.current_context.time)
        hour == t.hour
        day_of_week == t.day_of_week
        calendar == req.calendar_events
        next_event == Len(calendar) > 0
        next_event_title == IF next_event THEN lower(calendar[1].event) ELSE ""
        social_events ==
            \E i \in 1..Len(calendar) :
                AnyIn(lower(calendar[i].event),
                      {"drinks", "pub", "dinner", "meet", "quiz", "mates"})
        general == Scn("general", "General context", 500,
                       <<"context", "emotional">>, FALSE)
        social_outer ==
            (18 <= hour /\ hour <= 23 /\ day_of_week <= 4)
            \/ (next_event /\ AnyIn(next_event_title,
                                    {"drinks", "pub", "quiz", "dinner", "mates"}))
        social_inner ==
            social_events
            \/ (next_event /\ AnyIn(next_event_title, {"drinks", "pub", "quiz"}))
        social == Scn("social_evening", "Social time - events and connections",
                      900, <<"social", "context", "emotional">>, FALSE)
        weekend == Scn("weekend", "Weekend - relaxation and social activities",
                       800, <<"social", "wellness", "content">>, FALSE)
    IN
    IF social_outer THEN (IF social_inner THEN social ELSE general)
    ELSE IF weekend_days(day_of_week) THEN weekend
    ELSE general

rule_chain(req) ==
    LET t == ParseTime(req.current_context.time)
        hour == t.hour
        day_of_week == t.day_of_week
        current_loc == req.current_context.location
        calendar == req.calendar_events
        at_home == Near(current_loc.coords, req.user_data.home)
        at_work == Near(current_loc.coords, req.user_data.work)
        next_event == Len(calendar) > 0
        next_event_title == IF next_event THEN lower(calendar[1].event) ELSE ""
        next_event_location ==
            IF next_event THEN lower(calendar[1].location) ELSE ""
        is_deep_work ==
            next_event /\ AnyIn(next_event_title,
                                {"deep work", "feature", "dev", "coding"})
    IN
    IF next_event /\ AnyIn(next_event_title,
                           {"market", "shopping", "store", "mall"})
    THEN Scn("shopping", "Shopping trip - deals and purchases", 850,
             <<"financial", "context">>, FALSE)
    ELSE IF commute_hours(hour) /\ at_home
            /\ AnyIn(next_event_title,
                     {"standup", "meeting", "work", "office", "review", "demo"})
    THEN Scn("commuting_to_work",
             "User is at home with work event coming up - likely commuting soon",
             900, <<"context", "content", "productivity">>, FALSE)
    ELSE IF (at_work \/ Contains(lower(current_loc.name), "office")
                     \/ Contains(next_event_location, "office"))
            /\ 9 <= hour /\ hour <= 18
    THEN Scn("at_work",
             IF is_deep_work THEN "At work - focus and productivity mode"
                             ELSE "At work - meetings and collaboration",
             950, <<"productivity", "content">>, FALSE)
    ELSE IF before_sleep_hours(hour)
    THEN Scn("before_sleep", "Late night - sleep optimization time", 900,
             <<"wellness", "content">>, FALSE)
    ELSE IF (12 <= hour /\ hour <= 14)
            \/ (next_event /\ AnyIn(next_event_title,
                                    {"lunch", "sandwich", "food", "grab"}))
    THEN Scn("lunch_time", "Lunch hour - food and cost optimization", 850,
             <<"financial", "social">>, FALSE)
    ELSE evening_rules(req)

\* the workout check applied only when no earlier rule chose a scenario
workout_check_general_only(req, chosen) ==
    LET calendar == req.calendar_events
        next_event == Len(calendar) > 0
        next_event_title == IF next_event THEN lower(calendar[1].event) ELSE ""
    IN
    IF chosen.type = "general"
       /\ next_event
       /\ AnyIn(next_event_title,
                {"workout", "run", "gym", "exercise", "morning run"})
    THEN Scn("workout_time", "Workout scheduled or in progress", 850,
             <<"wellness", "social", "content">>, FALSE)
    ELSE chosen

workout_check(req, chosen) ==
    LET hour == ParseTime(req.current_context.time).hour
        calendar == req.calendar_events
        next_event == Len(calendar) > 0
        next_event_title == IF next_event THEN lower(calendar[1].event) ELSE ""
        is_workout_event ==
            next_event /\ AnyIn(next_event_title,
                {"workout", "run", "gym", "exercise", "morning run"})
    IN
    IF is_workout_event
       \/ (6 <= hour /\ hour <= 8 /\ AnyIn(next_event_title, {"run"}))
    THEN Scn("workout_time", "Workout scheduled or in progress", 850,
             <<"wellness", "social", "content">>, FALSE)
    ELSE chosen

\* the manual override is not consulted
detect_scenario_heuristics_only(req) == workout_check(req, rule_chain(req))

detect_scenario(req) ==
    IF Truthy(req.manual_scenario)
    THEN [get_scenario_config(req.manual_scenario) EXCEPT !.manual = TRUE]
    ELSE workout_check(req, rule_chain(req))

(***************************************************************************)
(* AgentOrchestrator.__init__: the agent registry, in insertion order, and *)
(* the fixed name, category and confidence literal of each agent.          *)
(***************************************************************************)
agent_map ==
    <<"context", "wellness", "productivity", "social", "emotional",
      "financial", "content">>

agent_name(key) ==
    CASE key = "context"      -> "Context Analyzer"
      [] key = "wellness"     -> "Wellness Intelligence"
      [] key = "productivity" -> "Productivity Intelligence"
      [] key = "social"       -> "Social Intelligence"
      [] key = "emotional"    -> "Emotional Intelligence"
      [] key = "financial"    -> "Financial Intelligence"
      [] key = "content"      -> "Content Curator"

agent_category(key) ==
    CASE key = "context"      -> "context"
      [] key = "wellness"     -> "wellness"
      [] key = "productivity" -> "productivity"
      [] key = "social"       -> "social"
      [] key = "emotional"    -> "wellness"
      [] key = "financial"    -> "ai"
      [] key = "content"      -> "music"

agent_confidence(key) ==
    CASE key = "context"      -> 850
      [] key = "wellness"     -> 880
      [] key = "productivity" -> 870
      [] key = "social"       -> 820
      [] key = "emotional"    -> 860
      [] key = "financial"    -> 810
      [] key = "content"      -> 840

(***************************************************************************)
(* BaseAgent.analyze: an agent call either raises or returns a list of     *)
(* insights.  Every agent stamps its own name, category and confidence     *)
(* literal; the priority is whatever the LLM text said (the agents' own    *)
(* parsers lower-case it without validating it, so an unrecognized value   *)
(* such as "urgent" can come back).  Field n is the position of the        *)
(* insight in the returned list and stands for its text fields.            *)
(***************************************************************************)
InsightPriorities == Priorities \cup {"urgent"}

Insight(key, priority, n) ==
    [agent_name |-> agent_name(key), category |-> agent_category(key),
     priority |-> priority, confidence |-> agent_confidence(key), n |-> n]

Pending == [status |-> "pending", insights |-> <<>>]

Raised == [status |-> "raised", insights |-> <<>>]

Returned(insights) == [status |-> "returned", insights |-> insights]

\* the context analyzer and the content curator set the priority themselves
\* (medium, the context analyzer high for a work commute); the five other
\* agents take it from the PRIORITY: line of the LLM text
agent_priorities(key) ==
    CASE key = "context" -> {"medium", "high"}
      [] key = "content" -> {"medium"}
      [] OTHER -> InsightPriorities

AnalyzeReturns(key) ==
    {[i \in 1..n |-> Insight(key, p, i)] :
        n \in 0..MaxPerAgent, p \in agent_priorities(key)}

(***************************************************************************)
(* AgentOrchestrator.orchestrate, steps 2, 4, 5 and the result bundle.     *)
(***************************************************************************)
\* the registry walked in its own order, keeping the triggered agents
select_active_agents_registry_order(triggers) ==
    LET triggered(key) == key \in ToSet(triggers) IN
    SelectSeq(agent_map, triggered)

RECURSIVE select_active_agents(_)
select_active_agents(triggers) ==
    IF triggers = <<>> THEN <<>>
    ELSE (IF Head(triggers) \in ToSet(agent_map)
          THEN <<Head(triggers)>> ELSE <<>>)
         \o select_active_agents(Tail(triggers))

\* gather without return_exceptions: the first failure discards the rest
RECURSIVE merge_results_abort(_)
merge_results_abort(res) ==
    IF res = <<>> \/ Head(res).status # "returned" THEN <<>>
    ELSE Head(res).insights \o merge_results_abort(Tail(res))

RECURSIVE merge_results(_)
merge_results(res) ==
    IF res = <<>> THEN <<>>
    ELSE (IF Head(res).status = "returned" THEN Head(res).insights ELSE <<>>)
         \o merge_results(Tail(res))

Min(a, b) == IF a <= b THEN a ELSE b

\* the registry key whose agent carries this name (first match), or None
agent_type_of(name) ==
    IF \E i \in 1..Len(agent_map) : agent_name(agent_map[i]) = name
    THEN agent_map[CHOOSE i \in 1..Len(agent_map) :
                      /\ agent_name(agent_map[i]) = name
                      /\ \A j \in 1..(i - 1) : agent_name(agent_map[j]) # name]
    ELSE None

\* the product is not clamped to 1.0
apply_weight_unclamped(insight, weights) ==
    LET agent_type == agent_type_of(insight.agent_name)
    IN  IF agent_type # None /\ agent_type \in DOMAIN weights
        THEN [insight EXCEPT
                !.confidence = (insight.confidence * weights[agent_type]) \div 10]
        ELSE insight

apply_weight(insight, weights) ==
    LET agent_type == agent_type_of(insight.agent_name)
    IN  IF agent_type # None /\ agent_type \in DOMAIN weights
        THEN [insight EXCEPT
                !.confidence = Min(1000, (insight.confidence * weights[agent_type]) \div 10)]
        ELSE insight

\* the multiplier is taken from the stored feedback of the insight's agent
apply_weights_from_feedback(all, weights) ==
    LET score(insight) ==
            LET k == insight.category \o "_" \o insight.agent_name
                stored == IF k \in DOMAIN feedback_scores
                          THEN feedback_scores[k] ELSE <<>>
            IN  IF stored = <<>> THEN 0
                ELSE stored[1] + (IF Len(stored) > 1 THEN stored[2] ELSE 0)
        weighted(insight) ==
            [insight EXCEPT
               !.confidence = Min(1000, (insight.confidence
                                          * (10 + score(insight))) \div 10)]
    IN  [i \in 1..Len(all) |-> weighted(all[i])]

apply_weights(all, weights) ==
    IF DOMAIN weights = {} THEN all
    ELSE [i \in 1..Len(all) |-> apply_weight(all[i], weights)]

priority_rank(p) == IF p \in DOMAIN PRIORITY_MAP THEN PRIORITY_MAP[p] ELSE 2

\* the confidence is not negated in the key: ascending confidence
key_le_ascending(a, b) ==
    \/ priority_rank(a.priority) < priority_rank(b.priority)
    \/ /\ priority_rank(a.priority) = priority_rank(b.priority)
       /\ a.confidence <= b.confidence

\* key(a) <= key(b) for the key (PRIORITY_MAP.get(priority, 2), -confidence)
key_le(a, b) ==
    \/ priority_rank(a.priority) < priority_rank(b.priority)
    \/ /\ priority_rank(a.priority) = priority_rank(b.priority)
       /\ a.confidence >= b.confidence

\* an unstable sort: an element goes before the elements of equal key
RECURSIVE insert_sorted_before_equals(_, _)
insert_sorted_before_equals(sorted, x) ==
    IF sorted = <<>> THEN <<x>>
    ELSE IF key_le(Head(sorted), x) /\ ~key_le(x, Head(sorted))
         THEN <<Head(sorted)>> \o insert_sorted_before_equals(Tail(sorted), x)
         ELSE <<x>> \o sorted

\* list.sort is stable: an element goes after every element whose key is <=
RECURSIVE insert_sorted(_, _)
insert_sorted(sorted, x) ==
    IF sorted = <<>> THEN <<x>>
    ELSE IF key_le(Head(sorted), x)
         THEN <<Head(sorted)>> \o insert_sorted(Tail(sorted), x)
         ELSE <<x>> \o sorted

RECURSIVE sort_insights(_)
sort_insights(all) ==
    IF all = <<>> THEN <<>>
    ELSE insert_sorted(sort_insights(SubSeq(all, 1, Len(all) - 1)), all[Len(all)])

\* the slice is missing
truncate_nothing(all) == all

truncate(all) == SubSeq(all, 1, Min(Len(all), MAX_INSIGHTS_PER_REQUEST))

NoBundle ==
    [insights |-> <<>>, all_insights |-> <<>>, active_agents |-> 0,
     total_agents |-> 0, insights_generated |-> 0]

make_bundle(res, weights, n_active) ==
    LET all_insights == sort_insights(apply_weights(merge_results(res), weights))
    IN  [insights |-> truncate(all_insights),
         all_insights |-> all_insights,
         active_agents |-> n_active,
         total_agents |-> Len(agent_map),
         insights_generated |-> Len(all_insights)]

(***************************************************************************)
(* Snapshots.  A timestamp is either unparseable or carries the weekday    *)
(* (0 = Monday) and the hour that the detectors read off the parsed value. *)
(***************************************************************************)
Weekdays == {4, 5, 6}

BadTime == [ok |-> FALSE, weekday |-> 0, hour |-> 0]

Times == {BadTime} \cup [ok : {TRUE}, weekday : Weekdays, hour : 0..23]

Coords(lat, lon) == [has |-> TRUE, lat |-> lat, lon |-> lon]

NoCoords == [has |-> FALSE, lat |-> 0, lon |-> 0]

HomeCoords == Coords(1528, -100)

WorkCoords == Coords(1500, -80)

\* 0.0092 degrees from home, exactly 0.01 degrees from home, at work
CurrentCoords == {NoCoords, Coords(1534, -93), Coords(1534, -92), WorkCoords}

LocationNames == {"", "Home", "Head Office"}

Locations == [name : LocationNames, coords : CurrentCoords]

Profiles == {[home |-> HomeCoords, work |-> WorkCoords],
             [home |-> NoCoords, work |-> NoCoords]}

Event(title, location) == [event |-> title, location |-> location]

FirstEvents ==
    {Event("Daily Standup", "Office"), Event("Daily Standup", ""),
     Event("Farmers Market", ""), Event("Gym", ""), Event("Brunch", ""),
     Event("Workout", ""), Event("Team Lunch", ""), Event("Pub Quiz", ""),
     Event("Dinner", ""), Event("Yoga", ""), Event("Yoga", "Office"),
     Event("Shopping Run", ""), Event("Mall Meeting", ""),
     Event("Office Gym", ""), Event("", "")}

LaterEvents == {Event("Dinner", "")}

SeqsUpTo(S, n) == UNION {[1..k -> S] : k \in 0..n}

Calendars ==
    {<<>>} \cup {<<e>> \o rest : e \in FirstEvents,
                                rest \in SeqsUpTo(LaterEvents, MaxCalendar - 1)}

Request(manual, time, location, profile, calendar) ==
    [manual_scenario |-> manual,
     current_context |-> [time |-> time, location |-> location],
     user_data |-> profile,
     calendar_events |-> calendar]

UnknownScenario == "party"

\* requests without a manual override: every snapshot of the bounded sets
AutoRequests ==
    {Request(None, t, l, p, c) :
        t \in Times, l \in Locations, p \in Profiles, c \in Calendars}

SomeLocations ==
    {[name |-> "Home", coords |-> HomeCoords],
     [name |-> "Head Office", coords |-> WorkCoords]}

SomeCalendars ==
    {<<>>, <<Event("Farmers Market", "")>>, <<Event("Gym", ""), Event("Dinner", "")>>}

\* requests with manual_scenario set (known, unknown, or the empty string)
ManualRequests ==
    {Request(m, t, l, [home |-> HomeCoords, work |-> WorkCoords], c) :
        m \in KnownScenarios \cup {UnknownScenario, ""},
        t \in Times, l \in SomeLocations, c \in SomeCalendars}

Requests == AutoRequests \cup ManualRequests

\* the snapshots the full orchestration is run on
OrchTimes ==
    {BadTime, [ok |-> TRUE, weekday |-> 5, hour |-> 23]}

OrchRequests ==
    {Request(m, t, [name |-> "Home", coords |-> HomeCoords],
             [home |-> HomeCoords, work |-> WorkCoords], c) :
        m \in KnownScenarios \cup {UnknownScenario, None},
        t \in OrchTimes,
        c \in {<<Event("Daily Standup", "Office")>>}}

(***************************************************************************)
(* The persisted preference file read by _load_onboarding_preferences:     *)
(* absent (empty map), a weight map written by save_onboarding, or a map    *)
(* edited by hand.                                                         *)
(***************************************************************************)
WeightMaps ==
    {<<>>,
     [k \in {"context", "emotional", "wellness", "content"} |->
        CASE k = "wellness" -> 15 [] k = "content" -> 13 [] OTHER -> 10],
     [k \in {"emotional", "social", "productivity", "content"} |->
        CASE k = "productivity" -> 20 [] k = "social" -> 5
          [] k = "content" -> 11 [] OTHER -> 10]}

NoScenario == Scn("", "", 0, <<>>, FALSE)

NoLLM == [mode |-> "unused"]

NoCall ==
    [llm_response |-> "", agent_name |-> "", category |-> "",
     default_priority |-> "", default_confidence |-> 0]

NoVoiceResponse == [status |-> 0]

NoInsight ==
    [agent_name |-> "", title |-> "", message |-> "", action |-> "",
     category |-> "", priority |-> "", confidence |-> 0, reasoning |-> ""]

(***************************************************************************)
(* orchestrate as a coroutine: steps 1-2 (detect, select, dispatch), the   *)
(* concurrently running agent tasks completing in any order, and steps 3-5 *)
(* after gather returns.                                                   *)
(***************************************************************************)
OrchestratorUnchanged ==
    UNCHANGED <<onboarding_file, llm, llm_scenario, feedback_scores,
                feedback_log, parse_args, parse_result,
                   conversation_history, voice_response>>

OrchestrateStart ==
    /\ pc = "start"
    /\ scenario' = detect_scenario(request)
    /\ active_agents' = select_active_agents(scenario'.triggers)
    /\ results' = [i \in 1..Len(active_agents') |-> Pending]
    /\ completed' = <<>>
    /\ pc' = "gather"
    /\ UNCHANGED <<request, bundle, agent_weights>>
    /\ OrchestratorUnchanged

AgentReturns(i) ==
    /\ pc = "gather"
    /\ i \in 1..Len(active_agents)
    /\ results[i].status = "pending"
    /\ \E insights \in AnalyzeReturns(active_agents[i]) :
          results' = [results EXCEPT ![i] = Returned(insights)]
    /\ completed' = Append(completed, i)
    /\ UNCHANGED <<request, pc, scenario, active_agents, bundle, agent_weights>>
    /\ OrchestratorUnchanged

AgentRaises(i) ==
    /\ pc = "gather"
    /\ i \in 1..Len(active_agents)
    /\ results[i].status = "pending"
    /\ results' = [results EXCEPT ![i] = Raised]
    /\ completed' = Append(completed, i)
    /\ UNCHANGED <<request, pc, scenario, active_agents, bundle, agent_weights>>
    /\ OrchestratorUnchanged

OrchestrateFinish ==
    /\ pc = "gather"
    /\ \A i \in 1..Len(results) : results[i].status # "pending"
    /\ bundle' = make_bundle(results, agent_weights, Len(active_agents))
    /\ pc' = "done"
    /\ UNCHANGED <<request, scenario, active_agents, results, completed,
                   agent_weights>>
    /\ OrchestratorUnchanged

\* the /analyze endpoint receives the next request
NextRequest ==
    /\ pc = "done"
    /\ \E req \in OrchRequests : request' = req
    /\ pc' = "start"
    /\ scenario' = NoScenario
    /\ active_agents' = <<>>
    /\ results' = <<>>
    /\ completed' = <<>>
    /\ bundle' = NoBundle
    /\ UNCHANGED agent_weights
    /\ OrchestratorUnchanged

InitCommon ==
    /\ pc = "start"
    /\ scenario = NoScenario
    /\ active_agents = <<>>
    /\ results = <<>>
    /\ completed = <<>>
    /\ bundle = NoBundle
    /\ llm = NoLLM
    /\ llm_scenario = NoScenario
    /\ feedback_scores = <<>>
    /\ feedback_log = <<>>
    /\ parse_args = NoCall
    /\ onboarding_file = agent_weights
    /\ parse_result = NoInsight
    /\ conversation_history = <<>>
    /\ voice_response = NoVoiceResponse

Init ==
    /\ request \in OrchRequests
    /\ agent_weights \in WeightMaps
    /\ InitCommon

Next ==
    \/ OrchestrateStart
    \/ \E i \in 1..3 : AgentReturns(i)
    \/ \E i \in 1..3 : AgentRaises(i)
    \/ OrchestrateFinish
    \/ NextRequest

Spec == Init /\ [][Next]_vars

(***************************************************************************)
(* Steps 1-2 of orchestrate over every snapshot of the bounded sets.       *)
(***************************************************************************)
InitDetect ==
    /\ request \in Requests
    /\ agent_weights = <<>>
    /\ InitCommon

NextDetect == OrchestrateStart

SpecDetect == InitDetect /\ [][NextDetect]_vars

(***************************************************************************)
(* Step 2 of orchestrate as a function of the scenario's trigger list: the *)
(* list comprehension applied to every list of at most MaxTriggers         *)
(* identifiers, registered or not.  The detector's own scenarios only      *)
(* carry registered identifiers.                                           *)
(***************************************************************************)
TriggerIds == ToSet(agent_map) \cup {"horoscope"}

TriggerLists == SeqsUpTo(TriggerIds, MaxTriggers)

SelectAgents ==
    /\ pc = "select"
    /\ active_agents' = select_active_agents(scenario.triggers)
    /\ results' = [i \in 1..Len(active_agents') |-> Pending]
    /\ completed' = <<>>
    /\ pc' = "gather"
    /\ UNCHANGED <<request, scenario, bundle, agent_weights>>
    /\ OrchestratorUnchanged

InitSelect ==
    /\ request \in {Request(None, BadTime, [name |-> "", coords |-> NoCoords],
                            [home |-> NoCoords, work |-> NoCoords], <<>>)}
    /\ pc = "select"
    /\ scenario \in {Scn("custom", "", 1000, triggers, FALSE) :
                        triggers \in TriggerLists}
    /\ active_agents = <<>>
    /\ results = <<>>
    /\ completed = <<>>
    /\ bundle = NoBundle
    /\ agent_weights = <<>>
    /\ llm = NoLLM
    /\ llm_scenario = NoScenario
    /\ feedback_scores = <<>>
    /\ feedback_log = <<>>
    /\ parse_args = NoCall
    /\ onboarding_file = agent_weights
    /\ parse_result = NoInsight
    /\ conversation_history = <<>>
    /\ voice_response = NoVoiceResponse

NextSelect == SelectAgents

SpecSelect == InitSelect /\ [][NextSelect]_vars

RegisteredIds ==
    {"context", "wellness", "productivity", "social", "emotional",
     "financial", "content"}

Registered(key) == key \in RegisteredIds

\* C15: the active-agent list is the scenario's trigger identifiers that are
\* in the registry, in trigger order; an unregistered identifier is dropped,
\* so the dispatched agents are among the seven registered ones and
\* active_agents <= total_agents.
C15_RegisteredInOrder ==
    pc = "gather" =>
        /\ active_agents = SelectSeq(scenario.triggers, Registered)
        /\ ToSet(active_agents) \subseteq RegisteredIds
        /\ Len(results) = Len(active_agents)
        /\ Len(active_agents) <= Len(agent_map)

C15_Witness ==
    /\ pc = "gather"
    /\ scenario.triggers = <<"content", "horoscope", "context">>
    /\ active_agents = <<"content", "context">>

(***************************************************************************)
(* Properties of the rule-based detector and of dispatch (SpecDetect).     *)
(***************************************************************************)
Detected == pc = "gather"

Hour == ParseTime(request.current_context.time).hour

NextTitle ==
    IF Len(request.calendar_events) > 0
    THEN lower(request.calendar_events[1].event) ELSE ""

\* C1: when manual_scenario is a known identifier, the detected scenario has
\* that type and the dispatched agents are exactly the triggers configured
\* for it, whatever the timestamp, location and calendar are.
C1_ManualDecisive ==
    (Detected /\ request.manual_scenario \in KnownScenarios) =>
        /\ scenario.type = request.manual_scenario
        /\ ToSet(active_agents) = ToSet(scenarios(request.manual_scenario).triggers)

\* a manual before_sleep at 08:00 with a market event next, which the
\* heuristics would classify as shopping
C1_Witness ==
    /\ Detected
    /\ request.manual_scenario = "before_sleep"
    /\ Hour = 8
    /\ Contains(NextTitle, "market")
    /\ scenario.type = "before_sleep"
    /\ active_agents = <<"wellness", "content">>

\* C2: when manual_scenario is one of the nine known identifiers, the
\* returned scenario has confidence 1.0.
C2_ManualConfidenceOne ==
    (Detected /\ request.manual_scenario \in KnownScenarios) =>
        scenario.confidence = 1000

\* C3: every snapshot yields a scenario whose type is one of the nine names,
\* and an unknown manual_scenario resolves to general.
C3_ClosedSet ==
    Detected =>
        /\ scenario.type \in KnownScenarios
        /\ (Truthy(request.manual_scenario)
              /\ request.manual_scenario \notin KnownScenarios)
           => scenario.type = "general"

C3_Witness ==
    /\ Detected
    /\ request.manual_scenario = UnknownScenario
    /\ scenario.type = "general"

\* C10 as stated: with no manual override, hour 22 or 23 always gives
\* before_sleep.
C10_LateNightAlwaysSleep ==
    (Detected /\ ~Truthy(request.manual_scenario)
       /\ request.current_context.time.ok /\ Hour \in {22, 23})
    => scenario.type = "before_sleep"

\* C10 amended: with no manual override, hour 22 or 23 gives before_sleep
\* provided the next event title holds no shopping keyword and no workout
\* keyword.
C10_LateNightSleep ==
    (Detected /\ ~Truthy(request.manual_scenario)
       /\ request.current_context.time.ok /\ Hour \in {22, 23}
       /\ ~AnyIn(NextTitle, {"market", "shopping", "store", "mall"})
       /\ ~AnyIn(NextTitle, {"workout", "run", "gym", "exercise"}))
    => scenario.type = "before_sleep"

\* 22:00 with a next event that carries a later rule's keyword
C10_Witness ==
    /\ Detected
    /\ ~Truthy(request.manual_scenario)
    /\ request.current_context.time.ok
    /\ Hour = 22
    /\ Contains(NextTitle, "pub")
    /\ scenario.type = "before_sleep"

AtHome == Near(request.current_context.location.coords, request.user_data.home)

AtWork == Near(request.current_context.location.coords, request.user_data.work)

ShoppingWords == {"market", "shopping", "store", "mall"}

WorkoutWords == {"workout", "run", "gym", "exercise"}

CommuteCase ==
    /\ Detected
    /\ ~Truthy(request.manual_scenario)
    /\ Hour \in 7..10
    /\ AtHome
    /\ AnyIn(NextTitle, {"standup", "meeting", "office"})

IsCommute ==
    /\ scenario.type = "commuting_to_work"
    /\ scenario.confidence = 900
    /\ scenario.triggers = <<"context", "content", "productivity">>

\* C11 as stated: with no manual override, hour 7 through 10, the current
\* location within the at-home threshold and a next event title containing
\* standup, meeting or office, the detector returns commuting_to_work with
\* confidence 0.9 and triggers [context, content, productivity].
C11_CommuteAlways == CommuteCase => IsCommute

\* C11 amended: the same holds when the next event title contains neither a
\* shopping keyword (market, shopping, store, mall) nor a workout keyword
\* (workout, run, gym, exercise).
C11_Commute ==
    (CommuteCase /\ ~AnyIn(NextTitle, ShoppingWords)
                 /\ ~AnyIn(NextTitle, WorkoutWords)) => IsCommute

C11_Witness ==
    /\ CommuteCase
    /\ Hour = 10
    /\ request.current_context.time.ok
    /\ request.user_data.home.has
    /\ ~AtWork
    /\ NextTitle = "daily standup"
    /\ IsCommute

WeekendCase ==
    /\ Detected
    /\ ~Truthy(request.manual_scenario)
    /\ request.current_context.time.ok
    /\ request.current_context.time.weekday \in {5, 6}
    /\ request.calendar_events = <<>>
    /\ ~AtWork
    /\ ~Contains(lower(request.current_context.location.name), "office")

IsWeekend == scenario.type = "weekend" /\ scenario.confidence = 800

\* C12 as stated: with no manual override, on Saturday or Sunday, with an
\* empty calendar and a current location neither within the at-work threshold
\* nor named with 'office', the detector returns weekend with confidence 0.8
\* at every hour.
C12_WeekendEveryHour == WeekendCase => IsWeekend

\* C12 amended: the same holds at the hours 2 through 11 and 15 through 21;
\* at 22, 23, 0 and 1 the before_sleep rule and at 12 through 14 the
\* lunch_time rule come first.
C12_Weekend ==
    (WeekendCase /\ Hour \in (2..11) \cup (15..21)) => IsWeekend

C12_Witness ==
    /\ WeekendCase
    /\ request.current_context.time.weekday = 5
    /\ Hour = 8
    /\ AtHome
    /\ IsWeekend

\* C16: with no manual override, an unparseable timestamp, no coordinates
\* for the current, home or work location and an empty calendar, the detector
\* returns general.
C16_EmptyIsGeneral ==
    (/\ Detected
     /\ ~Truthy(request.manual_scenario)
     /\ ~request.current_context.time.ok
     /\ ~request.current_context.location.coords.has
     /\ ~request.user_data.home.has
     /\ ~request.user_data.work.has
     /\ request.calendar_events = <<>>)
    => scenario.type = "general"

\* C18: with no manual override, a next event title containing workout, run,
\* gym or exercise gives workout_time whatever the earlier rules chose, and a
\* title containing none of them leaves the earlier rules' choice unchanged.
C18_WorkoutOverride ==
    (Detected /\ ~Truthy(request.manual_scenario)) =>
        IF AnyIn(NextTitle, WorkoutWords)
        THEN scenario.type = "workout_time"
        ELSE scenario = rule_chain(request)

C18_Witness ==
    /\ Detected
    /\ ~Truthy(request.manual_scenario)
    /\ NextTitle = "shopping run"
    /\ rule_chain(request).type = "shopping"
    /\ scenario.type = "workout_time"

Day == ParseTime(request.current_context.time).day_of_week

\* the conditions of the seven rules on the request being classified; the
\* social rule selects social_evening when its evening-or-keyword test and
\* its nested social-event test both hold
RuleOrder ==
    LET title == NextTitle
        hour == Hour
        calendar == request.calendar_events
        location == request.current_context.location
        ShoppingRule == AnyIn(title, ShoppingWords)
        CommuteRule ==
            /\ hour \in 7..10
            /\ AtHome
            /\ AnyIn(title, {"standup", "meeting", "work", "office",
                              "review", "demo"})
        AtWorkRule ==
            /\ hour \in 9..18
            /\ \/ AtWork
               \/ Contains(lower(location.name), "office")
               \/ /\ Len(calendar) > 0
                  /\ Contains(lower(calendar[1].location), "office")
        SleepRule == hour \in {22, 23, 0, 1}
        LunchRule ==
            hour \in 12..14 \/ AnyIn(title, {"lunch", "sandwich", "food", "grab"})
        SocialRule ==
            /\ \/ (hour \in 18..23 /\ Day \in 0..4)
               \/ AnyIn(title, {"drinks", "pub", "quiz", "dinner", "mates"})
            /\ \/ AnyIn(title, {"drinks", "pub", "quiz"})
               \/ \E i \in 1..Len(calendar) :
                     LET t == lower(calendar[i].event) IN
                     AnyIn(t, {"drinks", "pub", "dinner", "meet", "quiz",
                               "mates"})
        WeekendRule == Day \in {5, 6}
    IN
    <<[type |-> "shopping", holds |-> ShoppingRule],
      [type |-> "commuting_to_work", holds |-> CommuteRule],
      [type |-> "at_work", holds |-> AtWorkRule],
      [type |-> "before_sleep", holds |-> SleepRule],
      [type |-> "lunch_time", holds |-> LunchRule],
      [type |-> "social_evening", holds |-> SocialRule],
      [type |-> "weekend", holds |-> WeekendRule]>>

Matching == LET rules == RuleOrder IN {i \in 1..Len(rules) : rules[i].holds}

\* C19: with no manual override and no workout keyword in the next event's
\* title, the result is that of the earliest matching rule in the order
\* shopping, commuting_to_work, at_work, before_sleep, lunch_time,
\* social_evening, weekend, and general only when none matches; a title with a
\* shopping keyword gives shopping at any time and location.
C19_FirstMatchWins ==
    (Detected /\ ~Truthy(request.manual_scenario)
              /\ ~AnyIn(NextTitle, WorkoutWords)) =>
        LET rules == RuleOrder
            matching == {i \in 1..Len(rules) : rules[i].holds}
        IN
        /\ \A i \in matching :
              (\A j \in matching : i <= j) => scenario.type = rules[i].type
        /\ (scenario.type = "general") <=> (matching = {})
        /\ 1 \in matching => scenario.type = "shopping"

C19_Witness ==
    /\ Detected
    /\ ~Truthy(request.manual_scenario)
    /\ ~AnyIn(NextTitle, WorkoutWords)
    /\ scenario.type = "lunch_time"
    /\ Matching = {5, 6, 7}

(***************************************************************************)
(* Properties of the result bundle (Spec).                                 *)
(***************************************************************************)
Done == pc = "done"

RECURSIVE SumLen(_)
SumLen(res) ==
    IF res = <<>> THEN 0
    ELSE (IF Head(res).status = "returned" THEN Len(Head(res).insights) ELSE 0)
         + SumLen(Tail(res))

\* C5: the returned insight list never holds more than
\* MAX_INSIGHTS_PER_REQUEST insights.
C5_Capped == Done => Len(bundle.insights) <= MAX_INSIGHTS_PER_REQUEST

\* six insights were merged and five returned
C5_Witness ==
    /\ Done
    /\ bundle.insights_generated > MAX_INSIGHTS_PER_REQUEST
    /\ Len(bundle.insights) = MAX_INSIGHTS_PER_REQUEST

ClaimRank(p) ==
    CASE p = "critical" -> 0 [] p = "high" -> 1 [] p = "medium" -> 2 [] p = "low" -> 3

\* a may stand before b: lower rank, or equal rank and no smaller confidence
InOrder(a, b) ==
    (a.priority \in Priorities /\ b.priority \in Priorities) =>
        \/ ClaimRank(a.priority) < ClaimRank(b.priority)
        \/ /\ ClaimRank(a.priority) = ClaimRank(b.priority)
           /\ a.confidence >= b.confidence

\* C6: the returned insights are ordered by priority rank ascending and, at
\* equal rank, by weighted confidence descending, and every insight that was
\* dropped stands after every returned one in that order.
C6_Ranked ==
    Done =>
        /\ \A i, j \in 1..Len(bundle.insights) :
              i < j => InOrder(bundle.insights[i], bundle.insights[j])
        /\ \A i \in 1..Len(bundle.insights) :
              \A d \in (Len(bundle.insights) + 1)..Len(bundle.all_insights) :
                 InOrder(bundle.insights[i], bundle.all_insights[d])
        /\ Len(bundle.insights) = Min(bundle.insights_generated, MAX_INSIGHTS_PER_REQUEST)

\* a truncated bundle with two ranks and, within one rank, two confidences
C6_Witness ==
    /\ Done
    /\ bundle.insights_generated > MAX_INSIGHTS_PER_REQUEST
    /\ \E i, j \in 1..Len(bundle.insights) :
          /\ i < j
          /\ bundle.insights[i].priority = "high"
          /\ bundle.insights[j].priority = "high"
          /\ bundle.insights[i].confidence > bundle.insights[j].confidence
    /\ \E i \in 1..Len(bundle.insights) : bundle.insights[i].priority = "critical"

Present(key, ins) ==
    \E k \in 1..Len(bundle.all_insights) :
        /\ bundle.all_insights[k].agent_name = agent_name(key)
        /\ bundle.all_insights[k].n = ins.n
        /\ bundle.all_insights[k].priority = ins.priority

\* C7: whichever agents raise, every insight returned by a non-failing agent
\* is in the merged list, no merged insight carries the name of a failing
\* agent, and insights_generated counts exactly the returned insights.
C7_FailureIsolation ==
    Done =>
        /\ \A i \in 1..Len(results) :
              results[i].status = "returned" =>
                 \A n \in 1..Len(results[i].insights) :
                    Present(active_agents[i], results[i].insights[n])
        /\ \A i \in 1..Len(results) :
              results[i].status = "raised" =>
                 \A k \in 1..Len(bundle.all_insights) :
                    bundle.all_insights[k].agent_name # agent_name(active_agents[i])
        /\ bundle.insights_generated = SumLen(results)

\* the first task raised and a later one returned insights
C7_Witness ==
    /\ Done
    /\ Len(results) >= 2
    /\ results[1].status = "raised"
    /\ results[2].status = "returned"
    /\ Len(results[2].insights) > 0
    /\ bundle.insights_generated > 0

\* C14: every insight of every returned bundle has a priority among critical,
\* high, medium and low, whatever text the LLM returned to the agent.
C14_PrioritiesRecognized ==
    Done => \A i \in 1..Len(bundle.insights) :
                bundle.insights[i].priority \in Priorities

\* position in the trigger order of the agent that produced the insight
TriggerIndex(insight) ==
    CHOOSE i \in 1..Len(active_agents) :
        agent_name(active_agents[i]) = insight.agent_name

EqualKeys(a, b) ==
    /\ priority_rank(a.priority) = priority_rank(b.priority)
    /\ a.confidence = b.confidence

\* C22: whatever the order in which the agent calls complete, two insights
\* with equal priority rank and equal weighted confidence appear in the
\* final list in the trigger order of their agents (and, for one agent, in
\* the order in which that agent returned them).
C22_StableInTriggerOrder ==
    Done =>
        \A a, b \in 1..Len(bundle.all_insights) :
            LET x == bundle.all_insights[a]
                y == bundle.all_insights[b]
            IN  (a < b /\ EqualKeys(x, y)) =>
                    \/ TriggerIndex(x) < TriggerIndex(y)
                    \/ TriggerIndex(x) = TriggerIndex(y) /\ x.n < y.n

\* the last agent in trigger order completed first, and two insights of
\* different agents have equal keys
C22_Witness ==
    /\ Done
    /\ Len(completed) >= 2
    /\ completed[1] = Len(active_agents)
    /\ completed[Len(completed)] = 1
    /\ \E a, b \in 1..Len(bundle.all_insights) :
          /\ a < b
          /\ EqualKeys(bundle.all_insights[a], bundle.all_insights[b])
          /\ bundle.all_insights[a].priority # bundle.all_insights[b].priority
          /\ TriggerIndex(bundle.all_insights[a])
                < TriggerIndex(bundle.all_insights[b])

Weighted(key, n) ==
    bundle.all_insights[CHOOSE k \in 1..Len(bundle.all_insights) :
        /\ bundle.all_insights[k].agent_name = agent_name(key)
        /\ bundle.all_insights[k].n = n]

\* C9: an insight of an agent with registered weight w ends with confidence
\* min(1.0, original * w), which for w > 1.0 is at least the original and at
\* most 1.0; an insight of an agent without a registered weight keeps its
\* confidence.
C9_Weighting ==
    Done =>
        \A i \in 1..Len(results) :
           \A n \in 1..Len(results[i].insights) :
              LET key == active_agents[i]
                  original == results[i].insights[n].confidence
                  after == Weighted(key, n).confidence
              IN  IF key \in DOMAIN agent_weights
                  THEN /\ after * 10 = Min(10000, original * agent_weights[key])
                       /\ agent_weights[key] > 10 => (after >= original /\ after <= 1000)
                  ELSE after = original

\* one insight boosted below the clamp, one clamped, one without a weight
C9_Witness ==
    /\ Done
    /\ \E i \in 1..Len(results) :
          /\ active_agents[i] \in DOMAIN agent_weights
          /\ agent_weights[active_agents[i]] > 10
          /\ Len(results[i].insights) > 0
          /\ Weighted(active_agents[i], 1).confidence = 1000
    /\ \E i \in 1..Len(results) :
          /\ active_agents[i] \in DOMAIN agent_weights
          /\ agent_weights[active_agents[i]] > 10
          /\ Len(results[i].insights) > 0
          /\ Weighted(active_agents[i], 1).confidence < 1000
    /\ \E i \in 1..Len(results) :
          /\ active_agents[i] \notin DOMAIN agent_weights
          /\ Len(results[i].insights) > 0

(***************************************************************************)
(* LLMContextDetector.  The LLM service is either disabled, or its call    *)
(* raises, or it returns a text.  A text is described by what _parse_json  *)
(* makes of it: an optional code fence around a payload that json.loads    *)
(* rejects, reads as a non-object, or reads as an object whose             *)
(* scenario_type and confidence members are present or not.                *)
(***************************************************************************)
Absent == "<absent>"

Unhashable == "<list>"

ScenarioTypeValues == {"at_work", "weekend", "general", "nap_time", Absent, Unhashable}

\* the confidence member: absent, a text float() rejects, or a number in
\* thousandths
NoConfidence == [kind |-> "absent", value |-> 0]

ConfidenceValues ==
    {NoConfidence, [kind |-> "text", value |-> 0]}
    \cup [kind : {"number"}, value : {-500, 0, 650, 1000, 1500}]

Payloads ==
    {[kind |-> "not_json", scenario_type |-> Absent, confidence |-> NoConfidence],
     [kind |-> "array", scenario_type |-> Absent, confidence |-> NoConfidence]}
    \cup [kind : {"object"}, scenario_type : ScenarioTypeValues,
          confidence : ConfidenceValues]

\* no fence, a bare code fence, a code fence tagged json
Fences == {"none", "fence", "fence_json"}

LLMBehaviours ==
    {[mode |-> "disabled", fence |-> "none", payload |-> CHOOSE p \in Payloads : p.kind = "not_json"],
     [mode |-> "raises", fence |-> "none", payload |-> CHOOSE p \in Payloads : p.kind = "not_json"]}
    \cup [mode : {"text"}, fence : Fences, payload : Payloads]

llm_scenarios(t) ==
    CASE t = "commuting_to_work" ->
           [desc |-> "Traveling to work",
            agents |-> <<"context", "content", "productivity">>]
      [] t = "at_work" ->
           [desc |-> "At workplace, productivity mode",
            agents |-> <<"productivity", "content", "emotional">>]
      [] t = "before_sleep" ->
           [desc |-> "Late night winding down",
            agents |-> <<"wellness", "content", "emotional">>]
      [] t = "lunch_time" ->
           [desc |-> "Midday break",
            agents |-> <<"financial", "social", "content">>]
      [] t = "social_evening" ->
           [desc |-> "Evening social activities",
            agents |-> <<"social", "context", "emotional", "financial">>]
      [] t = "weekend" ->
           [desc |-> "Weekend leisure",
            agents |-> <<"social", "wellness", "content">>]
      [] t = "workout_time" ->
           [desc |-> "Exercise time",
            agents |-> <<"wellness", "social", "content">>]
      [] t = "shopping" ->
           [desc |-> "Shopping activities",
            agents |-> <<"financial", "context">>]
      [] t = "general" ->
           [desc |-> "General adaptive mode",
            agents |-> <<"context", "emotional">>]

build_response(scenario_name, confidence) ==
    LET info == IF scenario_name \in KnownScenarios
                THEN llm_scenarios(scenario_name)
                ELSE llm_scenarios("general")
    IN  Scn(scenario_name, info.desc, confidence, info.agents, FALSE)

\* the fallback with the rule-based detector's default hour for a failed parse
fallback_detection_hour9(req) ==
    LET time == req.current_context.time
        hour == IF time.ok THEN time.hour ELSE 9
        is_weekend == IF time.ok THEN time.weekday >= 5 ELSE FALSE
        scenario_name ==
            IF is_weekend THEN "weekend"
            ELSE IF 7 <= hour /\ hour <= 9 THEN "commuting_to_work"
            ELSE IF 12 <= hour /\ hour <= 14 THEN "lunch_time"
            ELSE IF hour >= 22 \/ hour <= 2 THEN "before_sleep"
            ELSE IF 9 <= hour /\ hour <= 18 THEN "at_work"
            ELSE "general"
    IN  build_response(scenario_name, 600)

fallback_detection(req) ==
    LET time == req.current_context.time
        hour == IF time.ok THEN time.hour ELSE 12
        is_weekend == IF time.ok THEN time.weekday >= 5 ELSE FALSE
        scenario_name ==
            IF is_weekend THEN "weekend"
            ELSE IF 7 <= hour /\ hour <= 9 THEN "commuting_to_work"
            ELSE IF 12 <= hour /\ hour <= 14 THEN "lunch_time"
            ELSE IF hour >= 22 \/ hour <= 2 THEN "before_sleep"
            ELSE IF 9 <= hour /\ hour <= 18 THEN "at_work"
            ELSE "general"
    IN  build_response(scenario_name, 600)

\* _parse_json: the fence and a leading "json" are stripped, then json.loads
\* either raises or yields the payload's value
parse_json(text) ==
    [ok |-> text.payload.kind # "not_json", data |-> text.payload]

Max(a, b) == IF a >= b THEN a ELSE b

\* the body of the try block; ok = FALSE when it raises
llm_classification(behaviour) ==
    LET parsed == parse_json(behaviour)
        data == parsed.data
        named == IF data.scenario_type = Absent THEN "general"
                 ELSE data.scenario_type
        scenario_name == IF named \in KnownScenarios THEN named ELSE "general"
        raises ==
            \/ behaviour.mode = "raises"
            \/ ~parsed.ok
            \/ data.kind # "object"
            \/ data.scenario_type = Unhashable
            \/ data.confidence.kind = "text"
        confidence ==
            IF data.confidence.kind = "absent" THEN 700
            ELSE Min(1000, Max(0, data.confidence.value))
    IN  IF raises THEN [ok |-> FALSE, scenario |-> NoScenario]
        ELSE [ok |-> TRUE,
              scenario |-> Scn(scenario_name, llm_scenarios(scenario_name).desc,
                               confidence, llm_scenarios(scenario_name).agents,
                               FALSE)]

\* without the except clause: a failure of the try block propagates and no
\* scenario is returned
llm_detect_scenario_no_except(req, behaviour) ==
    IF Truthy(req.manual_scenario)
    THEN build_response(req.manual_scenario, 1000)
    ELSE IF behaviour.mode = "disabled"
    THEN fallback_detection(req)
    ELSE llm_classification(behaviour).scenario

llm_detect_scenario(req, behaviour) ==
    IF Truthy(req.manual_scenario)
    THEN build_response(req.manual_scenario, 1000)
    ELSE IF behaviour.mode = "disabled"
    THEN fallback_detection(req)
    ELSE LET attempt == llm_classification(behaviour)
         IN  IF attempt.ok THEN attempt.scenario ELSE fallback_detection(req)

LLMRequests ==
    {Request(m, t, [name |-> "Home", coords |-> HomeCoords],
             [home |-> HomeCoords, work |-> WorkCoords], <<>>) :
        m \in {None, "", "weekend", "general", "at_work", UnknownScenario},
        t \in Times}

LLMDetect ==
    /\ pc = "llm_start"
    /\ llm_scenario' = llm_detect_scenario(request, llm)
    /\ pc' = "llm_done"
    /\ UNCHANGED <<request, scenario, active_agents, results, completed,
                   bundle, agent_weights, onboarding_file, llm,
                   feedback_scores, feedback_log, parse_args, parse_result,
                   conversation_history, voice_response>>

InitLLM ==
    /\ request \in LLMRequests
    /\ llm \in LLMBehaviours
    /\ pc = "llm_start"
    /\ scenario = NoScenario
    /\ active_agents = <<>>
    /\ results = <<>>
    /\ completed = <<>>
    /\ bundle = NoBundle
    /\ agent_weights = <<>>
    /\ llm_scenario = NoScenario
    /\ feedback_scores = <<>>
    /\ feedback_log = <<>>
    /\ parse_args = NoCall
    /\ onboarding_file = agent_weights
    /\ parse_result = NoInsight
    /\ conversation_history = <<>>
    /\ voice_response = NoVoiceResponse

NextLLM == LLMDetect

SpecLLM == InitLLM /\ [][NextLLM]_vars

\* C4: whatever the LLM does and whatever manual_scenario holds, the type
\* returned by LLMContextDetector.detect_scenario is one of the nine names.
C4_LLMClosedSet == pc = "llm_done" => llm_scenario.type \in KnownScenarios

FallbackCase ==
    /\ pc = "llm_done"
    /\ ~Truthy(request.manual_scenario)
    /\ llm.mode = "disabled"

FallbackTable ==
    LET time == request.current_context.time IN
    IF ~time.ok THEN "lunch_time"
    ELSE IF time.weekday \in {5, 6} THEN "weekend"
    ELSE CASE time.hour \in {7, 8, 9} -> "commuting_to_work"
           [] time.hour \in {12, 13, 14} -> "lunch_time"
           [] time.hour \in {22, 23, 0, 1, 2} -> "before_sleep"
           [] time.hour \in {10, 11, 15, 16, 17, 18} -> "at_work"
           [] OTHER -> "general"

\* C20: the fallback classifies Saturday/Sunday as weekend, else hour 7..9
\* as commuting_to_work, else 12..14 as lunch_time, else >= 22 or <= 2 as
\* before_sleep, else 9..18 as at_work, else general; an unparseable
\* timestamp counts as a weekday at hour 12; the confidence is 0.6 and the
\* triggers are the agent list configured for the chosen scenario.
C20_FallbackTable ==
    FallbackCase =>
        /\ llm_scenario.type = FallbackTable
        /\ llm_scenario.confidence = 600
        /\ llm_scenario.triggers = llm_scenarios(llm_scenario.type).agents

C20_Witness ==
    /\ FallbackCase
    /\ request.current_context.time.ok
    /\ request.current_context.time.weekday = 4
    /\ request.current_context.time.hour = 9
    /\ llm_scenario.type = "commuting_to_work"
    /\ llm_scenario.triggers = <<"context", "content", "productivity">>

\* the LLM is disabled, its call raises, or its text is not a JSON object
NoClassification ==
    \/ llm.mode \in {"disabled", "raises"}
    \/ llm.mode = "text" /\ llm.payload.kind # "object"

\* C21: with no manual override the LLM detector always returns a scenario;
\* when the LLM is disabled, its call raises or its response is not a JSON
\* object, the result is the result of the time-of-day fallback table for
\* the same snapshot; otherwise the returned confidence lies in [0, 1].
C21_FailureFallsBack ==
    (pc = "llm_done" /\ ~Truthy(request.manual_scenario)) =>
        /\ llm_scenario.type \in KnownScenarios
        /\ llm_scenario.confidence \in 0..1000
        /\ NoClassification =>
              /\ llm_scenario.type = FallbackTable
              /\ llm_scenario.confidence = 600
              /\ llm_scenario.triggers = llm_scenarios(FallbackTable).agents
              /\ llm_scenario.description = llm_scenarios(FallbackTable).desc

C21_Witness ==
    /\ pc = "llm_done"
    /\ ~Truthy(request.manual_scenario)
    /\ llm.mode = "text"
    /\ llm.fence = "fence_json"
    /\ llm.payload.kind = "array"
    /\ request.current_context.time.ok
    /\ request.current_context.time.weekday = 4
    /\ request.current_context.time.hour = 23
    /\ llm_scenario.type = "before_sleep"
    /\ llm_scenario.confidence = 600

\* C27: for every scenario type of the closed set the rule-based detector's
\* trigger list and the LLM detector's agent list are equal as sets, so a
\* manual_scenario activates the same agents under either strategy.
C27_SameDispatch ==
    pc = "llm_done" =>
        /\ llm_scenario.type \in KnownScenarios =>
              ToSet(llm_scenario.triggers)
                 = ToSet(get_scenario_config(llm_scenario.type).triggers)
        /\ Truthy(request.manual_scenario) =>
              ToSet(select_active_agents(llm_scenario.triggers))
                 = ToSet(select_active_agents(detect_scenario(request).triggers))

(***************************************************************************)
(* RAGService.record_feedback and get_feedback_score.  Scores are in       *)
(* halves; a mean is the pair (sum, count) that the division is applied    *)
(* to, and (0, 1) stands for the 0.0 returned when nothing is recorded.    *)
(***************************************************************************)
Categories == {"wellness", "wellness_tips"}

AgentNames == {"coach", "tips_coach"}

UserActions == {"clicked", "dismissed", "ignored"}

action_score(user_action) ==
    CASE user_action = "clicked"   -> 2
      [] user_action = "dismissed" -> -1
      [] user_action = "ignored"   -> 0
      [] OTHER                     -> 0

pattern_key(category, agent) == category \o "_" \o agent

RECURSIVE Sum(_)
Sum(scores) == IF scores = <<>> THEN 0 ELSE Head(scores) + Sum(Tail(scores))

get_feedback_score(category, agent) ==
    LET key == pattern_key(category, agent)
        scores == IF key \in DOMAIN feedback_scores
                  THEN feedback_scores[key] ELSE <<>>
    IN  IF scores = <<>> THEN [sum |-> 0, count |-> 1]
        ELSE [sum |-> Sum(scores), count |-> Len(scores)]

record_feedback(category, agent, user_action) ==
    LET key == pattern_key(category, agent)
        old == IF key \in DOMAIN feedback_scores
               THEN feedback_scores[key] ELSE <<>>
    IN
    /\ Len(feedback_log) < MaxFeedback
    /\ feedback_scores' =
          [k \in DOMAIN feedback_scores \cup {key} |->
              IF k = key THEN Append(old, action_score(user_action))
              ELSE feedback_scores[k]]
    /\ feedback_log' = Append(feedback_log,
          [category |-> category, agent_name |-> agent, action |-> user_action])
    /\ UNCHANGED <<request, pc, scenario, active_agents, results, completed,
                   bundle, agent_weights, onboarding_file, llm, llm_scenario,
                   parse_args, parse_result,
                   conversation_history, voice_response>>

RecordFeedback ==
    \E c \in Categories, a \in AgentNames, u \in UserActions :
        record_feedback(c, a, u)

InitFeedback ==
    /\ request \in {Request(None, BadTime, [name |-> "", coords |-> NoCoords],
                            [home |-> NoCoords, work |-> NoCoords], <<>>)}
    /\ pc = "feedback"
    /\ scenario = NoScenario
    /\ active_agents = <<>>
    /\ results = <<>>
    /\ completed = <<>>
    /\ bundle = NoBundle
    /\ agent_weights = <<>>
    /\ llm = NoLLM
    /\ llm_scenario = NoScenario
    /\ feedback_scores = <<>>
    /\ feedback_log = <<>>
    /\ parse_args = NoCall
    /\ onboarding_file = agent_weights
    /\ parse_result = NoInsight
    /\ conversation_history = <<>>
    /\ voice_response = NoVoiceResponse

NextFeedback == RecordFeedback

SpecFeedback == InitFeedback /\ [][NextFeedback]_vars

ClaimScore(user_action) ==
    CASE user_action = "clicked" -> 2
      [] user_action = "dismissed" -> -1
      [] user_action = "ignored" -> 0

RECURSIVE LoggedScores(_, _, _)
LoggedScores(log, category, agent) ==
    IF log = <<>> THEN <<>>
    ELSE (IF Head(log).category = category /\ Head(log).agent_name = agent
          THEN <<ClaimScore(Head(log).action)>> ELSE <<>>)
         \o LoggedScores(Tail(log), category, agent)

\* C8: get_feedback_score(category, agent) is the mean of the scores of the
\* feedback recorded for exactly that category and agent, and 0.0 when none
\* was recorded.
C8_MeanOfRecorded ==
    \A c \in Categories, a \in AgentNames :
        LET logged == LoggedScores(feedback_log, c, a)
            got == get_feedback_score(c, a)
        IN  IF logged = <<>> THEN got.sum = 0
            ELSE got.sum * Len(logged) = Sum(logged) * got.count

\* C28: a record_feedback call for one (category, agent_name) pair never
\* changes get_feedback_score of a different pair, names with underscores
\* included.
C28_Isolated ==
    [][\A c \in Categories, a \in AgentNames :
          (/\ Len(feedback_log') = Len(feedback_log) + 1
           /\ <<feedback_log'[Len(feedback_log')].category,
                feedback_log'[Len(feedback_log')].agent_name>> # <<c, a>>)
             => get_feedback_score(c, a)' = get_feedback_score(c, a)]_vars

(***************************************************************************)
(* The service: /feedback requests handled between /analyze requests.  A   *)
(* feedback request is served before the next orchestrate call begins, so  *)
(* every record in feedback_scores precedes the call that follows it.      *)
(***************************************************************************)
ServiceRequests ==
    {Request("before_sleep", BadTime, [name |-> "Home", coords |-> HomeCoords],
             [home |-> HomeCoords, work |-> WorkCoords], <<>>)}

FeedbackAgents == {"wellness"}

ServiceFeedback ==
    /\ pc = "start"
    /\ \E key \in FeedbackAgents, u \in UserActions :
          record_feedback(agent_category(key), agent_name(key), u)

ServiceNextRequest ==
    /\ pc = "done"
    /\ \E req \in ServiceRequests : request' = req
    /\ pc' = "start"
    /\ scenario' = NoScenario
    /\ active_agents' = <<>>
    /\ results' = <<>>
    /\ completed' = <<>>
    /\ bundle' = NoBundle
    /\ UNCHANGED agent_weights
    /\ OrchestratorUnchanged

InitService ==
    /\ request \in ServiceRequests
    /\ agent_weights \in WeightMaps
    /\ InitCommon

NextService ==
    \/ ServiceFeedback
    \/ OrchestrateStart
    \/ \E i \in 1..2 : AgentReturns(i)
    \/ \E i \in 1..2 : AgentRaises(i)
    \/ OrchestrateFinish
    \/ ServiceNextRequest

SpecService == InitService /\ [][NextService]_vars

\* the confidence an insight of agent key gets from the weight map loaded at
\* startup alone
StartupWeighted(key, original) ==
    IF key \in DOMAIN agent_weights
    THEN Min(1000, (original * agent_weights[key]) \div 10)
    ELSE original

\* the scores stored for the agent with registry key key
StoredFeedback(key) ==
    LET k == pattern_key(agent_category(key), agent_name(key)) IN
    IF k \in DOMAIN feedback_scores THEN feedback_scores[k] ELSE <<>>

PriorityTexts == {"Work focus", "Better sleep"}

PriorityLists == SeqsUpTo(PriorityTexts, MaxPriorities)

\* the number of priorities that mention one of the words
RECURSIVE mentions(_, _)
mentions(priorities, words) ==
    IF priorities = <<>> THEN 0
    ELSE (IF AnyIn(lower(Head(priorities)), words) THEN 1 ELSE 0)
         + mentions(Tail(priorities), words)

\* the agent_weights dict built by save_onboarding, in tenths
onboarding_weights(priorities, has_goals) ==
    LET count ==
            [k \in {"productivity", "wellness", "social", "financial"} |->
               mentions(priorities,
                  CASE k = "productivity" ->
                         {"work", "productivity", "focus", "meeting"}
                    [] k = "wellness" ->
                         {"health", "wellness", "sleep", "fitness", "exercise"}
                    [] k = "social" ->
                         {"social", "friends", "connection", "people"}
                    [] k = "financial" ->
                         {"money", "financial", "saving", "budget", "spending"})]
        keys == {"context", "emotional"}
                  \cup {k \in DOMAIN count : count[k] > 0}
                  \cup (IF has_goals THEN {"content"} ELSE {})
    IN  [k \in keys |->
            CASE k \in {"context", "emotional"} -> 10
              [] k = "content" -> 13
              [] OTHER -> 10 + 5 * count[k]]

\* the preferences object after save_onboarding has assigned
\* preferences.agent_weights, for every request of the bounded sets
SavedPreferences ==
    {[priorities |-> priorities, has_goals |-> has_goals,
      agent_weights |-> onboarding_weights(priorities, has_goals)] :
        priorities \in PriorityLists, has_goals \in BOOLEAN}

\* save_onboarding that also hands the new weights to the orchestrator
save_onboarding_reloading(preferences) ==
    /\ onboarding_file' = preferences.agent_weights
    /\ agent_weights' = onboarding_file'
    /\ UNCHANGED <<request, pc, scenario, active_agents, results, completed,
                   bundle, llm, llm_scenario, feedback_scores,
                   feedback_log, parse_args, parse_result,
                   conversation_history, voice_response>>

save_onboarding(preferences) ==
    /\ onboarding_file' = preferences.agent_weights
    /\ UNCHANGED <<request, pc, scenario, active_agents, results, completed,
                   bundle, agent_weights, llm, llm_scenario, feedback_scores,
                   feedback_log, parse_args, parse_result,
                   conversation_history, voice_response>>

SaveOnboarding ==
    \E preferences \in SavedPreferences : save_onboarding(preferences)

reset_onboarding ==
    /\ onboarding_file # <<>>
    /\ onboarding_file' = <<>>
    /\ UNCHANGED <<request, pc, scenario, active_agents, results, completed,
                   bundle, agent_weights, llm, llm_scenario, feedback_scores,
                   feedback_log, parse_args, parse_result,
                   conversation_history, voice_response>>

\* a /feedback request, served at any moment
WeightsFeedback ==
    record_feedback(agent_category("wellness"), agent_name("wellness"),
                    "clicked")

InitWeights ==
    /\ request \in ServiceRequests
    /\ agent_weights \in WeightMaps
    /\ InitCommon

NextWeights ==
    \/ SaveOnboarding
    \/ reset_onboarding
    \/ WeightsFeedback
    \/ OrchestrateStart
    \/ \E i \in 1..2 : AgentReturns(i)
    \/ \E i \in 1..2 : AgentRaises(i)
    \/ OrchestrateFinish
    \/ ServiceNextRequest

SpecWeights == InitWeights /\ [][NextWeights]_vars

\* C23: the weight map loaded when the orchestrator is constructed is left
\* unchanged by every later operation (orchestrate, record_feedback,
\* save_onboarding, reset_onboarding), so every orchestrate call applies the
\* weights that were on disk at startup.
C23_WeightsFrozen == [][agent_weights' = agent_weights]_vars

\* a bundle computed after the file was rewritten and feedback was stored:
\* the wellness insight carries no multiplier although the file now gives 1.5
C23_Witness ==
    /\ Done
    /\ feedback_log # <<>>
    /\ "wellness" \notin DOMAIN agent_weights
    /\ "wellness" \in DOMAIN onboarding_file
    /\ onboarding_file["wellness"] = 15
    /\ \E i \in 1..Len(results) :
          /\ active_agents[i] = "wellness"
          /\ Len(results[i].insights) > 0
          /\ Weighted("wellness", 1).confidence = 880

(***************************************************************************)
(* ResponseParser.parse_llm_response on the text of an LLM response.       *)
(***************************************************************************)
Whitespace == {" ", "\n", "\t"}

RECURSIVE lstrip(_)
lstrip(s) ==
    IF Len(s) > 0 /\ SubSeq(s, 1, 1) \in Whitespace
    THEN lstrip(SubSeq(s, 2, Len(s))) ELSE s

RECURSIVE rstrip(_)
rstrip(s) ==
    IF Len(s) > 0 /\ SubSeq(s, Len(s), Len(s)) \in Whitespace
    THEN rstrip(SubSeq(s, 1, Len(s) - 1)) ELSE s

\* str.strip()
strip(s) == rstrip(lstrip(s))

\* position of the first occurrence of w in s, 0 when there is none
find(s, w) ==
    LET at == {i \in 1..(Len(s) - Len(w) + 1) : SubSeq(s, i, i + Len(w) - 1) = w}
    IN  IF at = {} THEN 0 ELSE CHOOSE i \in at : \A j \in at : i <= j

\* str.split('\n')
RECURSIVE split_lines(_)
split_lines(s) ==
    LET i == find(s, "\n") IN
    IF i = 0 THEN <<s>>
    ELSE <<SubSeq(s, 1, i - 1)>> \o split_lines(SubSeq(s, i + 1, Len(s)))

\* line.split(marker)[-1]: the text after the last occurrence of the marker
RECURSIVE after_last(_, _)
after_last(line, marker) ==
    LET i == find(line, marker) IN
    IF i = 0 THEN line
    ELSE after_last(SubSeq(line, i + Len(marker), Len(line)), marker)

\* llm_response[:150], the content curator's cut
message_default_150(llm_response) ==
    SubSeq(llm_response, 1, Min(150, Len(llm_response)))

\* llm_response[:200]
message_default(llm_response) ==
    SubSeq(llm_response, 1, Min(200, Len(llm_response)))

\* one pass of the for loop over a line
parse_line(fields, raw_line, default_priority) ==
    LET line == strip(raw_line) IN
    IF Contains(line, "TITLE:")
    THEN [fields EXCEPT !.title = strip(after_last(line, "TITLE:"))]
    ELSE IF Contains(line, "MESSAGE:")
    THEN [fields EXCEPT !.message = strip(after_last(line, "MESSAGE:"))]
    ELSE IF Contains(line, "ACTION:")
    THEN [fields EXCEPT !.action = strip(after_last(line, "ACTION:"))]
    ELSE IF Contains(line, "REASONING:")
    THEN [fields EXCEPT !.reasoning = strip(after_last(line, "REASONING:"))]
    ELSE IF Contains(line, "PRIORITY:")
    THEN LET priority == lower(strip(after_last(line, "PRIORITY:"))) IN
         [fields EXCEPT !.priority =
             IF priority \in {"critical", "high", "medium", "low"}
             THEN priority ELSE default_priority]
    ELSE fields

RECURSIVE parse_lines(_, _, _)
parse_lines(fields, lines, default_priority) ==
    IF lines = <<>> THEN fields
    ELSE parse_lines(parse_line(fields, Head(lines), default_priority),
                     Tail(lines), default_priority)

parse_llm_response(llm_response, name, category, default_priority, default_confidence) ==
    LET lines == split_lines(strip(llm_response))
        fields == parse_lines(
            [title |-> "AI Insight", message |-> message_default(llm_response),
             action |-> "View Details", reasoning |-> "AI analysis",
             priority |-> default_priority],
            lines, default_priority)
    IN  [agent_name |-> name, title |-> fields.title,
         message |-> fields.message, action |-> fields.action,
         category |-> category, priority |-> fields.priority,
         confidence |-> default_confidence, reasoning |-> fields.reasoning]

\* the lines an LLM response is made of
ResponseLines ==
    {"This is just random text", "TITLE: Move", "MESSAGE: Walk: 5 min",
     "ACTION: Go", "REASONING: Sitting", " PRIORITY: High ",
     "PRIORITY: urgent", "MESSAGE: see TITLE: Move"}

RECURSIVE join(_)
join(lines) ==
    IF lines = <<>> THEN ""
    ELSE IF Len(lines) = 1 THEN lines[1]
    ELSE lines[1] \o "\n" \o join(Tail(lines))

RECURSIVE repeat(_, _)
repeat(s, n) == IF n = 0 THEN "" ELSE s \o repeat(s, n - 1)

\* 210 characters without a marker
LongText == repeat("no structure at all, ", 10)

Responses ==
    {join(lines) : lines \in SeqsUpTo(ResponseLines, MaxLines)}
      \cup {LongText, "  \n"}

ParseCalls ==
    [llm_response : Responses, agent_name : {"Test Agent"},
     category : {"test_category"}, default_priority : {"medium", "low"},
     default_confidence : {850, 700}]

Parse ==
    /\ pc = "parse"
    /\ parse_result' = parse_llm_response(parse_args.llm_response,
                                    parse_args.agent_name, parse_args.category,
                                    parse_args.default_priority,
                                    parse_args.default_confidence)
    /\ pc' = "parsed"
    /\ UNCHANGED <<request, scenario, active_agents, results, completed,
                   bundle, agent_weights, onboarding_file, llm, llm_scenario,
                   feedback_scores, feedback_log, parse_args,
                   conversation_history, voice_response>>

InitParser ==
    /\ request \in {Request(None, BadTime, [name |-> "", coords |-> NoCoords],
                            [home |-> NoCoords, work |-> NoCoords], <<>>)}
    /\ pc = "parse"
    /\ scenario = NoScenario
    /\ active_agents = <<>>
    /\ results = <<>>
    /\ completed = <<>>
    /\ bundle = NoBundle
    /\ agent_weights = <<>>
    /\ llm = NoLLM
    /\ llm_scenario = NoScenario
    /\ feedback_scores = <<>>
    /\ feedback_log = <<>>
    /\ parse_args \in ParseCalls
    /\ onboarding_file = agent_weights
    /\ parse_result = NoInsight
    /\ conversation_history = <<>>
    /\ voice_response = NoVoiceResponse

NextParser == Parse

SpecParser == InitParser /\ [][NextParser]_vars

Markers == {"TITLE:", "MESSAGE:", "ACTION:", "PRIORITY:", "REASONING:"}

\* C13: for a response text containing none of the markers TITLE:, MESSAGE:,
\* ACTION:, PRIORITY:, REASONING:, parse_llm_response returns an insight
\* built only from defaults: title 'AI Insight', message the first 200
\* characters of the response, action 'View Details', reasoning
\* 'AI analysis', the default priority and confidence, and the given
\* agent_name and category.
C13_DefaultsOnly ==
    (pc = "parsed"
       /\ \A m \in Markers : ~Contains(parse_args.llm_response, m)) =>
        /\ parse_result.title = "AI Insight"
        /\ Len(parse_result.message) <= 200
        /\ parse_result.message =
              SubSeq(parse_args.llm_response, 1, Len(parse_result.message))
        /\ Len(parse_result.message) = 200
              \/ parse_result.message = parse_args.llm_response
        /\ parse_result.action = "View Details"
        /\ parse_result.reasoning = "AI analysis"
        /\ parse_result.priority = parse_args.default_priority
        /\ parse_result.confidence = parse_args.default_confidence
        /\ parse_result.agent_name = parse_args.agent_name
        /\ parse_result.category = parse_args.category

C13_Witness ==
    /\ pc = "parsed"
    /\ parse_args.llm_response = LongText
    /\ parse_args.default_priority = "low"
    /\ Len(parse_result.message) = 200
    /\ parse_result.priority = "low"
    /\ parse_result.title = "AI Insight"

\* the text following the marker in a line that contains it
after_first(line, marker) ==
    SubSeq(line, find(line, marker) + Len(marker), Len(line))

\* the lines of the parsed response that contain the marker, in order
MarkerLines(marker) ==
    LET has(line) == Contains(line, marker) IN
    SelectSeq(split_lines(strip(parse_args.llm_response)), has)

\* the field as the claim gives it: the text following the marker in the
\* last line containing it, the default when no line does
FieldText(marker, default) ==
    LET lines == MarkerLines(marker) IN
    IF lines = <<>> THEN default
    ELSE strip(after_first(lines[Len(lines)], marker))

\* C25: each line containing a recognized marker overwrites the
\* corresponding field with the text following the marker (a later line
\* overwrites an earlier one, text with colons is kept whole); a field with
\* no marker line keeps its default; the confidence is default_confidence; a
\* PRIORITY value outside critical, high, medium, low (case-insensitively)
\* gives default_priority.
C25_FieldSemantics ==
    pc = "parsed" =>
        LET priority == lower(FieldText("PRIORITY:", parse_args.default_priority)) IN
        /\ parse_result.title = FieldText("TITLE:", "AI Insight")
        /\ parse_result.message =
              FieldText("MESSAGE:", message_default(parse_args.llm_response))
        /\ parse_result.action = FieldText("ACTION:", "View Details")
        /\ parse_result.reasoning = FieldText("REASONING:", "AI analysis")
        /\ parse_result.confidence = parse_args.default_confidence
        /\ parse_result.priority =
              IF priority \in Priorities THEN priority
              ELSE parse_args.default_priority

(***************************************************************************)
(* The seven registered agents.  analyze builds a prompt, awaits the LLM   *)
(* text, parses it with the agent's own _parse_response and applies the    *)
(* agent's escalation rule; llm holds the text the LLM service answers the *)
(* prompts of one request with.                                            *)
(***************************************************************************)
\* one pass of an agent's _parse_response loop, for the priority: the
\* PRIORITY: branch is the last of the elif chain and keeps any text
parse_priority_line(priority, line) ==
    IF AnyIn(line, {"TITLE:", "MESSAGE:", "ACTION:", "REASONING:"})
    THEN priority
    ELSE IF Contains(line, "PRIORITY:")
    THEN lower(strip(after_last(line, "PRIORITY:")))
    ELSE priority

RECURSIVE parse_priority_lines(_, _)
parse_priority_lines(priority, lines) ==
    IF lines = <<>> THEN priority
    ELSE parse_priority_lines(parse_priority_line(priority, Head(lines)),
                              Tail(lines))

\* the priority of the insight _parse_response returns
parse_priority(llm_response, default) ==
    parse_priority_lines(default, split_lines(strip(llm_response)))

\* priority = "medium" (wellness, productivity, social, emotional),
\* priority = "low" (financial)
default_priority(key) == IF key = "financial" THEN "low" ELSE "medium"

\* request.calendar_events[:3][0].get('event', '') tested for the work words
is_work_commute(req) ==
    /\ Len(req.calendar_events) > 0
    /\ AnyIn(lower(req.calendar_events[1].event),
             {"standup", "meeting", "work", "office", "review"})

\* user_data.get("fitness_data", {}).get("sleep", {}).get('quality', '')
sleep_quality(req) ==
    IF "sleep_quality" \in DOMAIN req.user_data
    THEN req.user_data.sleep_quality ELSE ""

\* priority="medium", then "high" if is_work_commute
context_priority(req) == IF is_work_commute(req) THEN "high" ELSE "medium"

\* insight.priority = "high" if "poor" in the sleep quality
wellness_priority(req, parsed) ==
    IF Contains(lower(sleep_quality(req)), "poor") THEN "high" ELSE parsed

\* an agent returning its insight twice
returned_list_twice(insight) == <<insight, [insight EXCEPT !.n = 2]>>

\* return [insight]
returned_list(insight) == <<insight>>

analyze(key, req, llm_response) ==
    LET parsed == parse_priority(llm_response, default_priority(key)) IN
    CASE key = "context" ->
           returned_list(Insight(key, context_priority(req), 1))
      [] key = "content" -> returned_list(Insight(key, "medium", 1))
      [] key = "wellness" ->
           returned_list(Insight(key, wellness_priority(req, parsed), 1))
      [] key = "productivity" ->
           IF req.manual_scenario = "weekend" THEN <<>>
           ELSE returned_list(Insight(key, parsed, 1))
      [] OTHER -> returned_list(Insight(key, parsed, 1))

AgentAnalyzes(i) ==
    /\ pc = "gather"
    /\ i \in 1..Len(active_agents)
    /\ results[i].status = "pending"
    /\ results' = [results EXCEPT
                     ![i] = Returned(analyze(active_agents[i], request, llm))]
    /\ completed' = Append(completed, i)
    /\ UNCHANGED <<request, pc, scenario, active_agents, bundle, agent_weights>>
    /\ OrchestratorUnchanged

AgentResponses == {"TITLE: Sleep\nPRIORITY: critical", "PRIORITY: High", "Rest now"}

AgentTimes ==
    {[ok |-> TRUE, weekday |-> 4, hour |-> 8],
     [ok |-> TRUE, weekday |-> 4, hour |-> 12],
     [ok |-> TRUE, weekday |-> 5, hour |-> 19],
     [ok |-> TRUE, weekday |-> 4, hour |-> 23]}

SleepQualities == {"Poor", "good"}

AgentCalendars ==
    {<<>>, <<Event("Daily Standup", "Office")>>,
     <<Event("Gym", ""), Event("Dinner", "")>>, <<Event("Farmers Market", "")>>,
     <<Event("Pub Quiz", "")>>}

AgentRequests ==
    {Request(m, t, [name |-> "Home", coords |-> HomeCoords],
             [home |-> HomeCoords, work |-> WorkCoords, sleep_quality |-> q], c) :
        m \in KnownScenarios \cup {UnknownScenario, None},
        t \in AgentTimes, q \in SleepQualities, c \in AgentCalendars}

AgentsNextRequest ==
    /\ pc = "done"
    /\ \E req \in AgentRequests : request' = req
    /\ pc' = "start"
    /\ scenario' = NoScenario
    /\ active_agents' = <<>>
    /\ results' = <<>>
    /\ completed' = <<>>
    /\ bundle' = NoBundle
    /\ UNCHANGED agent_weights
    /\ OrchestratorUnchanged

InitAgents ==
    /\ request \in AgentRequests
    /\ llm \in AgentResponses
    /\ agent_weights = <<>>
    /\ pc = "start"
    /\ scenario = NoScenario
    /\ active_agents = <<>>
    /\ results = <<>>
    /\ completed = <<>>
    /\ bundle = NoBundle
    /\ llm_scenario = NoScenario
    /\ feedback_scores = <<>>
    /\ feedback_log = <<>>
    /\ parse_args = NoCall
    /\ onboarding_file = agent_weights
    /\ parse_result = NoInsight
    /\ conversation_history = <<>>
    /\ voice_response = NoVoiceResponse

NextAgents ==
    \/ OrchestrateStart
    \/ \E i \in 1..3 : AgentAnalyzes(i)
    \/ \E i \in 1..3 : AgentRaises(i)
    \/ OrchestrateFinish
    \/ AgentsNextRequest

SpecAgents == InitAgents /\ [][NextAgents]_vars

\* the insight agent key returned, when it returned one
ReturnedBy(key) ==
    LET i == CHOOSE j \in 1..Len(active_agents) : active_agents[j] = key
    IN  results[i].insights[1]

HasReturned(key) ==
    \E i \in 1..Len(active_agents) :
        /\ active_agents[i] = key
        /\ results[i].status = "returned"
        /\ Len(results[i].insights) > 0

\* C24: whenever the selected scenario (rule-detected or manual) is
\* commuting_to_work, the insight the Context Analyzer returns has priority
\* high.
C24_CommuteEscalates ==
    (pc \in {"gather", "done"} /\ scenario.type = "commuting_to_work"
       /\ HasReturned("context")) =>
        ReturnedBy("context").priority = "high"

\* C29: the insight returned by the Wellness Intelligence agent, and by the
\* Context Analyzer, has a priority at least as urgent as the priority its
\* _parse_response took from the LLM text before the escalation rule.
C29_NeverLowers ==
    /\ HasReturned("wellness") =>
          priority_rank(ReturnedBy("wellness").priority)
             <= priority_rank(parse_priority(llm, default_priority("wellness")))
    /\ HasReturned("context") =>
          priority_rank(ReturnedBy("context").priority) <= priority_rank("medium")

\* C30: with the rule-based classifier and the registered agents, every
\* bundle has insights_generated <= active_agents <= 3 and as many returned
\* insights as were generated: the truncation removes nothing.
C30_NothingTruncated ==
    Done =>
        /\ bundle.insights_generated <= bundle.active_agents
        /\ bundle.active_agents <= 3
        /\ bundle.insights_generated = Len(bundle.insights)
        /\ \A i \in 1..Len(results) : Len(results[i].insights) <= 1

\* three agents dispatched, each returned its one insight, all three kept
C30_Witness ==
    /\ Done
    /\ bundle.active_agents = 3
    /\ \A i \in 1..3 : results[i].status = "returned"
    /\ bundle.insights_generated = 3
    /\ Len(bundle.insights) = 3

(***************************************************************************)
(* main.py, voice_onboarding_step: one call of the voice onboarding        *)
(* conversation.  The client holds the conversation history, sends it with *)
(* every call and appends the user's answer and the returned question.     *)
(***************************************************************************)
Message(role, text) == [role |-> role, text |-> text]

\* len([msg for msg in request.conversation_history if msg.role == "user"])
num_user_responses(history) ==
    LET user(msg) == msg.role = "user" IN Len(SelectSeq(history, user))

force_complete(history) == num_user_responses(history) >= 5

\* str.startswith
startswith(s, prefix) ==
    Len(s) >= Len(prefix) /\ SubSeq(s, 1, Len(prefix)) = prefix

\* str.replace(old, "")
RECURSIVE remove_all(_, _)
remove_all(s, old) ==
    LET i == find(s, old) IN
    IF i = 0 THEN s
    ELSE SubSeq(s, 1, i - 1) \o remove_all(SubSeq(s, i + Len(old), Len(s)), old)

\* the texts json.loads accepts; a parsed object is kept as its text
JsonObjects == {"{}", "{\"priorities\": [\"work\"]}"}

\* json.loads inside try/except: anything else leaves preferences = {}
json_loads(pref_str) == IF pref_str \in JsonObjects THEN pref_str ELSE "{}"

\* one pass of the parsing loop
voice_line(fields, raw_line) ==
    LET line == strip(raw_line) IN
    IF startswith(line, "ANALYSIS:")
    THEN [fields EXCEPT !.analysis = strip(remove_all(line, "ANALYSIS:"))]
    ELSE IF startswith(line, "PREFERENCES:")
    THEN [fields EXCEPT !.preferences_extracted =
             json_loads(strip(remove_all(line, "PREFERENCES:")))]
    ELSE IF startswith(line, "NEXT_QUESTION:")
    THEN LET next_question == strip(remove_all(line, "NEXT_QUESTION:")) IN
         IF Contains(next_question, "ONBOARDING_COMPLETE")
         THEN [fields EXCEPT !.next_question = "ONBOARDING_COMPLETE",
                             !.is_complete = TRUE]
         ELSE [fields EXCEPT !.next_question = next_question]
    ELSE fields

RECURSIVE voice_lines(_, _)
voice_lines(fields, lines) ==
    IF lines = <<>> THEN fields
    ELSE voice_lines(voice_line(fields, Head(lines)), Tail(lines))

\* the VoiceOnboardingResponse built from the LLM text
voice_step_response(history, response) ==
    LET parsed == voice_lines([analysis |-> "", preferences_extracted |-> "{}",
                               next_question |-> "", is_complete |-> FALSE],
                              split_lines(response))
        asked == IF parsed.next_question = ""
                 THEN [parsed EXCEPT !.next_question =
                          "Tell me more about what you'd like help with."]
                 ELSE parsed
        forced == IF force_complete(history) /\ ~asked.is_complete
                  THEN [asked EXCEPT
                          !.is_complete = TRUE,
                          !.next_question = "ONBOARDING_COMPLETE",
                          !.analysis =
                             IF asked.analysis = ""
                             THEN "User has provided sufficient information about their priorities"
                             ELSE asked.analysis]
                  ELSE asked
    IN  [status |-> 200, next_question |-> forced.next_question,
         analysis |-> forced.analysis,
         preferences_extracted |-> forced.preferences_extracted,
         is_complete |-> forced.is_complete]

\* raise HTTPException(status_code=500, ...)
VoiceFailed == [status |-> 500]

\* what the LLM service does with the onboarding prompt
VoiceReplies ==
    {"ANALYSIS: Work matters\nPREFERENCES: {\"priorities\": [\"work\"]}\nNEXT_QUESTION: What else?",
     "NEXT_QUESTION: ONBOARDING_COMPLETE",
     "Thanks for sharing!"}

VoiceUnchanged ==
    UNCHANGED <<request, scenario, active_agents, results, completed, bundle,
                agent_weights, onboarding_file, llm, llm_scenario,
                feedback_scores, feedback_log, parse_args, parse_result>>

voice_onboarding_step ==
    /\ pc = "voice"
    /\ \/ \E response \in VoiceReplies :
             voice_response' = voice_step_response(conversation_history, response)
       \/ voice_response' = VoiceFailed
    /\ pc' = "voice_done"
    /\ UNCHANGED conversation_history
    /\ VoiceUnchanged

VoiceCompleted == voice_response.status = 200 /\ voice_response.is_complete

\* the client records the user's answer and the question it was given, and
\* calls again
ClientAnswers ==
    /\ pc = "voice_done"
    /\ ~VoiceCompleted
    /\ num_user_responses(conversation_history) < MaxUserMessages
    /\ \E answer \in PriorityTexts :
          conversation_history' =
             conversation_history \o <<Message("user", answer)>>
                \o (IF voice_response.status = 200
                    THEN <<Message("assistant", voice_response.next_question)>>
                    ELSE <<>>)
    /\ pc' = "voice"
    /\ UNCHANGED voice_response
    /\ VoiceUnchanged

InitVoice ==
    /\ request \in {Request(None, BadTime, [name |-> "", coords |-> NoCoords],
                            [home |-> NoCoords, work |-> NoCoords], <<>>)}
    /\ pc = "voice"
    /\ scenario = NoScenario
    /\ active_agents = <<>>
    /\ results = <<>>
    /\ completed = <<>>
    /\ bundle = NoBundle
    /\ agent_weights = <<>>
    /\ onboarding_file = agent_weights
    /\ llm = NoLLM
    /\ llm_scenario = NoScenario
    /\ feedback_scores = <<>>
    /\ feedback_log = <<>>
    /\ parse_args = NoCall
    /\ parse_result = NoInsight
    /\ conversation_history = <<>>
    /\ voice_response = NoVoiceResponse

NextVoice == voice_onboarding_step \/ ClientAnswers

SpecVoice == InitVoice /\ [][NextVoice]_vars

\* C26: whenever the conversation history of a voice-step call holds at
\* least 4 messages with role user, the response has is_complete true and
\* next_question ONBOARDING_COMPLETE, whatever the LLM replied.
C26_HardLimit ==
    (pc = "voice_done" /\ voice_response.status = 200
       /\ num_user_responses(conversation_history) >= 4) =>
        /\ voice_response.is_complete
        /\ voice_response.next_question = "ONBOARDING_COMPLETE"

====
